---- MODULE Spec2Model ----
(***************************************************************************)
(* Model of screenshot_editor.py: the compositing functions round_image   *)
(* and add_background, and the ScreenshotEditor state with its capture,   *)
(* re-render and undo/redo handlers.                                       *)
(*                                                                         *)
(* Images are modelled by their construction: a record that names the     *)
(* operation that built it, its inputs and its size.  A Python exception  *)
(* leaving a function is the record Raise(exc).                            *)
(***************************************************************************)
EXTENDS Integers, Sequences, FiniteSets, TLC

(* ------------------------------ bounds -------------------------------- *)
\* how many screenshots one run of the editor takes
MaxCaptures == 3
\* how many parameter changes one run of the editor makes
MaxEdits == 2
\* largest padding tried on add_background alone
MaxPad == 2

(* ------------------------- program constants -------------------------- *)
InitRadius == 30
InitPadding == 50
InitOpacity == 30
DefaultOpacity == 30
DefaultShadowOffset == <<8, 8>>

\* values the sliders and the shadow toggle deliver in the model
RadiusValues == {0, InitRadius}
PaddingValues == {0, InitPadding}
OpacityValues == {0, InitOpacity}
\* CGDisplayBounds of the main display: the size of every screenshot
ScreenSize == <<4, 3>>

None == [kind |-> "none"]
Raise(exc) == [kind |-> "error", exc |-> exc]
IsError(v) == v.kind = "error"

(* ------------------------ image processing ---------------------------- *)
round_image(pil_image, radius) ==
    IF radius <= 0
    THEN pil_image
    ELSE [kind |-> "rounded", of |-> pil_image, radius |-> radius,
          w |-> pil_image.w, h |-> pil_image.h]

\* Image.alpha_composite(im1, im2): both images must have the same size
alpha_composite(im1, im2) ==
    IF IsError(im1) THEN im1
    ELSE IF IsError(im2) THEN im2
    ELSE IF <<im1.w, im1.h>> # <<im2.w, im2.h>> THEN Raise("ValueError")
    ELSE [kind |-> "over", below |-> im1, above |-> im2, w |-> im1.w, h |-> im1.h]

\* Image.new(mode, size, color): a negative side is rejected
image_new(w, h, fill) ==
    IF w < 0 \/ h < 0 THEN Raise("ValueError")
    ELSE [kind |-> "new", fill |-> fill, w |-> w, h |-> h]

RECURSIVE add_background(_, _, _, _, _, _, _, _)
add_background(fg_image, bg_mode, color, bg_image, pad, shadow_on, shadow_opacity, shadow_offset) ==
    LET shadow_w == fg_image.w + 2 * pad + shadow_offset[1]
        shadow_h == fg_image.h + 2 * pad + shadow_offset[2]
        shadow_canvas == image_new(shadow_w, shadow_h, <<"shadow", shadow_opacity>>)
        new_w == fg_image.w + 2 * pad
        new_h == fg_image.h + 2 * pad
        back == IF bg_mode = "image" /\ bg_image # None
                THEN [kind |-> "resized", of |-> bg_image, w |-> new_w, h |-> new_h]
                ELSE image_new(new_w, new_h, color)
        pasted(canvas) == [kind |-> "pasted", canvas |-> canvas, fg |-> fg_image,
                           at |-> <<pad, pad>>, w |-> canvas.w, h |-> canvas.h]
    IN  IF shadow_on
        THEN IF IsError(shadow_canvas) THEN shadow_canvas
             ELSE LET under == alpha_composite(back, shadow_canvas)
                  IN  IF IsError(under) THEN under
                      ELSE LET inner == add_background(fg_image, "color", <<"transparent">>, None,
                                                       pad, TRUE, DefaultOpacity,
                                                       DefaultShadowOffset)
                               both == alpha_composite(under, inner)
                           IN  IF IsError(both) THEN both ELSE pasted(both)
        ELSE pasted(back)

(* --------------------------- editor state ----------------------------- *)
VARIABLES
    original_image,   \* self.original_image
    final_image,      \* self.final_image
    corner_radius,    \* self.corner_radius
    padding,          \* self.padding
    shadow_enabled,   \* self.shadow_enabled
    shadow_opacity,   \* self.shadow_opacity
    undo_stack,       \* self.undo_stack
    redo_stack,       \* self.redo_stack
    n_captures,       \* screenshots taken so far (names the capture files)
    n_edits,          \* parameter changes made so far
    error,            \* exception that left the last handler, or "none"
    lastOp,           \* the last handler that ran
    undoMark,         \* the state an undo started from, kept over the redo that follows
    scenario,         \* active states after each step while the run is C,C,C,undo,undo,redo
    cIn,              \* arguments of a call of add_background
    cOut              \* what that call returned

editorVars == <<original_image, final_image, corner_radius, padding,
                shadow_enabled, shadow_opacity, undo_stack, redo_stack, n_captures, n_edits,
                error, lastOp, undoMark, scenario>>
composeVars == <<cIn, cOut>>
vars == <<original_image, final_image, corner_radius, padding,
          shadow_enabled, shadow_opacity, undo_stack, redo_stack, n_captures, n_edits,
          error, lastOp, undoMark, scenario, cIn, cOut>>

RenderConfig ==
    [corner_radius |-> corner_radius, padding |-> padding,
     shadow_enabled |-> shadow_enabled, shadow_opacity |-> shadow_opacity]

\* the active state: what a history entry holds
Snapshot(img, cfg) == [capture |-> img, config |-> cfg]
Active == Snapshot(original_image, RenderConfig)

\* everything the history operations read or write
Core == [active |-> Active, undo |-> undo_stack, redo |-> redo_stack]

_setup_state ==
    /\ corner_radius = InitRadius
    /\ padding = InitPadding
    /\ original_image = None
    /\ final_image = None
    /\ undo_stack = <<>>
    /\ redo_stack = <<>>
    /\ shadow_enabled = TRUE
    /\ shadow_opacity = InitOpacity
    /\ n_captures = 0
    /\ n_edits = 0
    /\ error = "none"
    /\ lastOp = "init"
    /\ undoMark = None
    /\ scenario = [on |-> TRUE, steps |-> <<>>]

\* the background fields of _setup_state; no handler of the model changes them
bg_mode == "color"
bg_color == <<"white">>
bg_image == None

(* ----------------------------- re-render ------------------------------ *)
\* apply_effects on (original_image, the config fields): the new final_image and
\* the exception that left it.  An exception leaves final_image as it was.
apply_effects(orig, cfg, old_final) ==
    IF orig = None
    THEN [final |-> old_final, error |-> "none"]
    ELSE LET sc_rounded == round_image(orig, cfg.corner_radius)
             with_bg == add_background(sc_rounded, bg_mode, bg_color, bg_image,
                                       cfg.padding, cfg.shadow_enabled,
                                       cfg.shadow_opacity, DefaultShadowOffset)
         IN  IF IsError(with_bg)
             THEN [final |-> old_final, error |-> with_bg.exc]
             ELSE [final |-> round_image(with_bg, cfg.corner_radius), error |-> "none"]

(* ------------------------------ history ------------------------------- *)
Top(stack) == stack[Len(stack)]
Pop(stack) == SubSeq(stack, 1, Len(stack) - 1)

\* push_undo, undo and redo are not part of the source file, which ends inside
\* apply_effects; they follow the design document's Edit History (section 4.4).
\* push_undo: the (Capture, RenderConfig) before the mutation goes on the undo
\* stack.  The clearing of the redo stack is take_screenshot's own statement.
push_undo(undo, img, cfg) == Append(undo, Snapshot(img, cfg))

\* variants of history_before_capture with one slip each
history_keeps_redo(img, cfg, undo, redo) ==
    IF img # None
    THEN [undo |-> push_undo(undo, img, cfg), redo |-> redo]
    ELSE [undo |-> undo, redo |-> redo]

history_pushes_below(img, cfg, undo, redo) ==
    IF img # None
    THEN [undo |-> <<Snapshot(img, cfg)>> \o undo, redo |-> <<>>]
    ELSE [undo |-> undo, redo |-> redo]

history_without_push(img, cfg, undo, redo) ==
    IF img # None
    THEN [undo |-> undo, redo |-> <<>>]
    ELSE [undo |-> undo, redo |-> redo]

\* take_screenshot, before the grab: push_undo() and redo_stack.clear(), only when
\* an image is there
history_before_capture(img, cfg, undo, redo) ==
    IF img # None
    THEN [undo |-> push_undo(undo, img, cfg), redo |-> <<>>]
    ELSE [undo |-> undo, redo |-> redo]

\* variant of capture_and_render: the old image is dropped before the grab
capture_drops_original(grabbed, new, orig, cfg, old_final) ==
    IF grabbed
    THEN LET r == apply_effects(new, cfg, old_final)
         IN  [original |-> new, final |-> r.final, error |-> r.error]
    ELSE [original |-> None, final |-> old_final, error |-> "CaptureUnavailable"]

\* take_screenshot, from the grab on: capture_screenshot and Image.open either
\* deliver the new image, which is then rendered, or raise
capture_and_render(grabbed, new, orig, cfg, old_final) ==
    IF grabbed
    THEN LET r == apply_effects(new, cfg, old_final)
         IN  [original |-> new, final |-> r.final, error |-> r.error]
    ELSE [original |-> orig, final |-> old_final, error |-> "CaptureUnavailable"]

\* variants of undo_effect with one slip each
undo_forgets_current(core) ==
    IF core.undo = <<>>
    THEN core
    ELSE [active |-> Top(core.undo), undo |-> Pop(core.undo), redo |-> core.redo]

undo_resets_redo(core) ==
    IF core.undo = <<>>
    THEN [core EXCEPT !.redo = <<>>]
    ELSE [active |-> Top(core.undo), undo |-> Pop(core.undo),
          redo |-> Append(core.redo, core.active)]

\* undo on the history: nothing on an empty undo stack, else the top snapshot
\* becomes the active state and the active state goes on the redo stack
undo_effect(core) ==
    IF core.undo = <<>>
    THEN core
    ELSE [active |-> Top(core.undo), undo |-> Pop(core.undo),
          redo |-> Append(core.redo, core.active)]

\* redo, the inverse
redo_effect(core) ==
    IF core.redo = <<>>
    THEN core
    ELSE [active |-> Top(core.redo), redo |-> Pop(core.redo),
          undo |-> Append(core.undo, core.active)]

(* ------------------------- observers of a run ------------------------- *)
ScenarioOps == <<"capture", "capture", "capture", "undo", "undo", "redo">>
ScenarioOff == [on |-> FALSE, steps |-> <<>>]

ScenarioStep(op, acted, now) ==
    IF /\ scenario.on
       /\ acted
       /\ Len(scenario.steps) < Len(ScenarioOps)
       /\ ScenarioOps[Len(scenario.steps) + 1] = op
    THEN [on |-> TRUE, steps |-> Append(scenario.steps, now)]
    ELSE ScenarioOff

(* ------------------------------ handlers ------------------------------ *)
Install(core) ==
    /\ original_image' = core.active.capture
    /\ corner_radius' = core.active.config.corner_radius
    /\ padding' = core.active.config.padding
    /\ shadow_enabled' = core.active.config.shadow_enabled
    /\ shadow_opacity' = core.active.config.shadow_opacity
    /\ undo_stack' = core.undo
    /\ redo_stack' = core.redo

Rerender(core, acted) ==
    LET r == IF acted
             THEN apply_effects(core.active.capture, core.active.config, final_image)
             ELSE [final |-> final_image, error |-> "none"]
    IN  /\ final_image' = r.final
        /\ error' = r.error

take_screenshot ==
    /\ n_captures < MaxCaptures
    /\ \E grabbed \in BOOLEAN :
         LET hist == history_before_capture(original_image, RenderConfig,
                                            undo_stack, redo_stack)
             new == [kind |-> "capture", id |-> n_captures + 1,
                     w |-> ScreenSize[1], h |-> ScreenSize[2]]
             res == capture_and_render(grabbed, new, original_image, RenderConfig,
                                       final_image)
         IN  /\ undo_stack' = hist.undo
             /\ redo_stack' = hist.redo
             /\ original_image' = res.original
             /\ final_image' = res.final
             /\ error' = res.error
             /\ scenario' = ScenarioStep("capture", grabbed,
                                         Snapshot(res.original, RenderConfig))
    /\ n_captures' = n_captures + 1
    /\ lastOp' = "take_screenshot"
    /\ undoMark' = None
    /\ UNCHANGED <<corner_radius, padding, shadow_enabled, shadow_opacity, n_edits>>
    /\ UNCHANGED composeVars

undo ==
    LET next == undo_effect(Core)
        acted == undo_stack # <<>>
    IN  /\ Install(next)
        /\ Rerender(next, acted)
        /\ lastOp' = "undo"
        /\ undoMark' = [kind |-> "mark", pre |-> Core, stage |-> "undone"]
        /\ scenario' = ScenarioStep("undo", TRUE, next.active)
        /\ UNCHANGED <<n_captures, n_edits>>
        /\ UNCHANGED composeVars

redo ==
    LET next == redo_effect(Core)
        acted == redo_stack # <<>>
    IN  /\ Install(next)
        /\ Rerender(next, acted)
        /\ lastOp' = "redo"
        /\ undoMark' = IF undoMark # None /\ undoMark.stage = "undone"
                       THEN [undoMark EXCEPT !.stage = "redone"]
                       ELSE None
        /\ scenario' = ScenarioStep("redo", TRUE, next.active)
        /\ UNCHANGED <<n_captures, n_edits>>
        /\ UNCHANGED composeVars

\* a parameter handler: set the field, render again
ParameterChanged(op, cfg) ==
    LET r == apply_effects(original_image, cfg, final_image)
    IN  /\ n_edits < MaxEdits
        /\ n_edits' = n_edits + 1
        /\ corner_radius' = cfg.corner_radius
        /\ padding' = cfg.padding
        /\ shadow_enabled' = cfg.shadow_enabled
        /\ shadow_opacity' = cfg.shadow_opacity
        /\ final_image' = r.final
        /\ error' = r.error
        /\ lastOp' = op
        /\ undoMark' = None
        /\ scenario' = ScenarioOff
        /\ UNCHANGED <<original_image, undo_stack, redo_stack, n_captures>>
        /\ UNCHANGED composeVars

on_radius_changed ==
    \E value \in RadiusValues :
        ParameterChanged("on_radius_changed", [RenderConfig EXCEPT !.corner_radius = value])

on_padding_changed ==
    \E value \in PaddingValues :
        ParameterChanged("on_padding_changed", [RenderConfig EXCEPT !.padding = value])

on_shadow_changed ==
    \E enabled \in BOOLEAN, opacity \in OpacityValues :
        ParameterChanged("on_shadow_changed",
                         [RenderConfig EXCEPT !.shadow_enabled = enabled,
                                              !.shadow_opacity = opacity])

Init ==
    /\ _setup_state
    /\ cIn = None
    /\ cOut = None

Next ==
    \/ take_screenshot
    \/ undo
    \/ redo
    \/ on_radius_changed
    \/ on_padding_changed
    \/ on_shadow_changed

Spec == Init /\ [][Next]_vars

(* -------------------- add_background on its own ----------------------- *)
FgSizes == {<<1, 1>>, <<3, 2>>}
OffsetValues == {-2, 0, 8}
Foregrounds ==
    { round_image([kind |-> "capture", id |-> 1, w |-> sz[1], h |-> sz[2]], r) :
        sz \in FgSizes, r \in RadiusValues }
Wallpaper == [kind |-> "file", w |-> 5, h |-> 5]

ComposeInputs ==
    [fg : Foregrounds, bg_mode : {"color", "image"}, bg_image : {None, Wallpaper},
     pad : 0..MaxPad, shadow_on : BOOLEAN, opacity : OpacityValues,
     offset : OffsetValues \X OffsetValues]

ComposeInit ==
    /\ _setup_state
    /\ cIn \in ComposeInputs
    /\ cOut = None

call_add_background ==
    /\ cOut = None
    /\ cOut' = add_background(cIn.fg, cIn.bg_mode, bg_color, cIn.bg_image, cIn.pad,
                              cIn.shadow_on, cIn.opacity, cIn.offset)
    /\ UNCHANGED cIn
    /\ UNCHANGED editorVars

SpecCompose == ComposeInit /\ [][call_add_background]_vars

(* ------------------------------ claims -------------------------------- *)
IsCapture == lastOp' = "take_screenshot" /\ n_captures' = n_captures + 1
Max0(x) == IF x > 0 THEN x ELSE 0

\* C1: right after every capture action the redo stack is empty.
C1_RedoEmptyAfterCapture ==
    lastOp = "take_screenshot" => redo_stack = <<>>

\* a third capture taken while the second one was undone: the redo stack held an
\* entry when the capture started
C1_Witness ==
    /\ lastOp = "take_screenshot"
    /\ original_image # None /\ original_image.id = 3
    /\ Len(undo_stack) = 1 /\ Top(undo_stack).capture.id = 1
    /\ redo_stack = <<>>

\* C2: undo directly followed by redo, started with a non-empty undo stack, gives
\* back the active capture and config and both stacks as they were.
C2_UndoRedoRoundTrip ==
    (/\ lastOp = "redo"
     /\ undoMark # None
     /\ undoMark.stage = "redone"
     /\ Len(undoMark.pre.undo) >= 1)
    => Core = undoMark.pre

C2_Witness ==
    /\ lastOp = "redo"
    /\ undoMark # None
    /\ undoMark.stage = "redone"
    /\ Len(undoMark.pre.undo) >= 1
    /\ Len(undoMark.pre.redo) >= 1
    /\ Core = undoMark.pre

\* C3: from the empty editor, three successful captures then undo, undo leave the
\* state that was active after the first capture; one redo more leaves the state
\* that was active after the second.
C3_HistoryOrdering ==
    scenario.on =>
        /\ Len(scenario.steps) >= 5 => scenario.steps[5] = scenario.steps[1]
        /\ Len(scenario.steps) >= 6 => scenario.steps[6] = scenario.steps[2]

C3_Witness ==
    /\ scenario.on
    /\ Len(scenario.steps) = 6
    /\ scenario.steps[6].capture.id = 2
    /\ Active = scenario.steps[2]

\* C4: a successful capture pushes the state that was active before it, if there
\* was an image, and pushes nothing from the empty editor.
C4_CapturePushesPrevious ==
    [][(IsCapture /\ error' # "CaptureUnavailable")
        => IF original_image = None
           THEN undo_stack = <<>> /\ undo_stack' = <<>>
           ELSE /\ undo_stack' = Append(undo_stack, Active)
                /\ Top(undo_stack').capture = original_image
                /\ original_image' # original_image]_vars

C4_Witness ==
    /\ lastOp = "take_screenshot"
    /\ error # "CaptureUnavailable"
    /\ Len(undo_stack) = 2
    /\ Top(undo_stack).capture.id = 2
    /\ original_image.id = 3

\* C5: undo on an empty undo stack and redo on an empty redo stack change
\* nothing and raise nothing.
C5_EmptyUndoRedoNoOp ==
    [][((lastOp' = "undo" /\ undo_stack = <<>>)
        \/ (lastOp' = "redo" /\ redo_stack = <<>>))
        => /\ Core' = Core
           /\ final_image' = final_image
           /\ error' = "none"]_vars

C5_Witness ==
    /\ lastOp = "undo"
    /\ undoMark # None
    /\ undoMark.pre.undo = <<>>
    /\ undoMark.pre.redo # <<>>
    /\ Core = undoMark.pre
    /\ error = "none"

\* C6: a capture action whose grab fails leaves the active image, the config and
\* the displayed image as they were.
C6_CaptureFailureLeavesPipeline ==
    [][(IsCapture /\ error' = "CaptureUnavailable")
        => /\ original_image' = original_image
           /\ RenderConfig' = RenderConfig
           /\ final_image' = final_image]_vars

C6_Witness ==
    /\ lastOp = "take_screenshot"
    /\ error = "CaptureUnavailable"
    /\ original_image # None
    /\ final_image # None

\* C7: add_background returns an image of size fg + 2*padding, plus the positive
\* parts of the shadow offset when the shadow is on.
C7_ComposeOutputSize ==
    cOut # None =>
        /\ ~IsError(cOut)
        /\ cOut.w = cIn.fg.w + 2 * cIn.pad
                    + (IF cIn.shadow_on THEN Max0(cIn.offset[1]) ELSE 0)
        /\ cOut.h = cIn.fg.h + 2 * cIn.pad
                    + (IF cIn.shadow_on THEN Max0(cIn.offset[2]) ELSE 0)

\* C8: add_background returns an image for every foreground and every config.
C8_ComposeTotal ==
    (cIn # None /\ cOut # None) => cOut.kind = "pasted"

\* C9: the displayed image is the pipeline's result for the active image and the
\* current config.
C9_DisplayFollowsConfig ==
    original_image # None =>
        LET out == add_background(round_image(original_image, corner_radius),
                                  bg_mode, bg_color, bg_image, padding,
                                  shadow_enabled, shadow_opacity, DefaultShadowOffset)
        IN  /\ ~IsError(out)
            /\ final_image = round_image(out, corner_radius)

\* C10: a capture action whose grab fails leaves both history stacks as they were.
C10_CaptureFailureLeavesHistory ==
    [][(IsCapture /\ error' = "CaptureUnavailable")
        => /\ undo_stack' = undo_stack
           /\ redo_stack' = redo_stack]_vars

====
